---- MODULE Spec2Model ----
(***************************************************************************)
(* Model of the vocabulary drill component (WordLearning) and the audio    *)
(* utilities it drives (audioUtils.ts).                                    *)
(*                                                                         *)
(* The component is a React function component.  Its useState cells and    *)
(* useRef cells are the variables below.  An event handler reads the state *)
(* of the render it was created in and queues state updates; the updates   *)
(* are committed together and the effects whose dependencies changed run   *)
(* right after the commit.  One action of the model is one such turn of    *)
(* the event loop: the handler, the commit and the effects.  A promise     *)
(* continuation is a turn of its own and sees the state values its closure *)
(* captured when the request was issued, but the live value of every ref.  *)
(***************************************************************************)
EXTENDS Integers, Sequences, FiniteSets, TLC

\* ---------------------------------------------------------------- bounds
NumWords == 2          \* length of the word list handed to the component
MaxAudioId == 5        \* speak requests issued in one run
MaxInFlight == 2       \* speak requests awaiting the speech service at once
MaxWriteCount == 4     \* cap on writeCount, which the code never bounds
MaxRecorders == 2      \* MediaRecorder objects created in one run
MaxGradings == 2       \* pronunciation gradings awaiting the service at once
MaxAcquiring == 2      \* getUserMedia calls awaiting the browser at once
MaxSources == 3        \* source nodes created by direct calls of playAudioBuffer
AwardCap == 2          \* the award counters of the history saturate here
MaxChat == 2           \* messages kept in the follow-up chat log
MaxAsks == 1           \* follow-up questions awaiting the service at once
MaxSessions == 1       \* capture sessions started while the collaborators are exercised
MaxMistakes == 3       \* records in the stored mistake list
MaxLen == 3            \* characters of a word or sentence handed to a text function
MaxTextLen == 5        \* characters of a text handed to formatText
MaxSamples == 2        \* 16-bit samples in a byte sequence handed to decodeAudioData
MaxChannels == 2       \* numChannels handed to decodeAudioData
MaxDrillPoints == 6    \* the count of drill points of one visit stops here
MaxArticles == 3        \* generateArticle calls made
MaxVocabulary == 2      \* generateVocabulary calls awaiting their answer
NumDays == 2           \* calendar days the clock passes through

\* -------------------------------------------------------- program constants
PronunciationThreshold == 60
SilenceStopMs == 1200  \* trailing silence that ends a session once speech was heard
NoSpeechStopMs == 8000 \* silence that ends a session in which no speech was heard
\* representative values of Date.now() - lastSpeakingTimeRef.current at a frame
ElapsedMs == {0, SilenceStopMs, SilenceStopMs + 1, NoSpeechStopMs, NoSpeechStopMs + 1}
PcmScale == 32768      \* decodeAudioData divides every sample by it
Scores == {59, 60}     \* scores the grading service may return (0..100)

\* ------------------------------------------------------------------- text
\* Strings are sequences of one-character strings.
Upper == {"A", "C", "T"}
Punctuation == {".", ",", "!", ";", ":", "-"}

LowerChar(c) ==
    CASE c = "A" -> "a"
      [] c = "C" -> "c"
      [] c = "T" -> "t"
      [] OTHER -> c

ToLowerCase(s) == [i \in 1..Len(s) |-> LowerChar(s[i])]

Trim(s) ==
    LET keep == {i \in 1..Len(s) : s[i] # " "}
        Min(S) == CHOOSE x \in S : \A y \in S : x <= y
        Max(S) == CHOOSE x \in S : \A y \in S : x >= y
    IN  IF keep = {} THEN <<>> ELSE SubSeq(s, Min(keep), Max(keep))

\* the word list: word i is "c" "a"^i "t", its example sentence "A <word>."
WordOf(i) == <<"c">> \o [k \in 1..i |-> "a"] \o <<"t">>
SentenceOf(i) == <<"A", " ">> \o WordOf(i) \o <<".">>

\* handleWordInputSubmit, the comparison of line 338
WordMatches(input, word) == Trim(ToLowerCase(input)) = ToLowerCase(word)

\* handleCopySentenceSubmit, normalize of line 371
normalize(s) ==
    LET low == ToLowerCase(s)
        IsKept(c) == c \notin Punctuation
    IN  Trim(SelectSeq(low, IsKept))

SentenceMatches(input, sentence) == normalize(input) = normalize(sentence)

\* what the learner may type into the word / sentence-copy box
WordInputs(i) ==
    { WordOf(i),
      <<"C">> \o Tail(WordOf(i)) \o <<" ">>,
      SubSeq(WordOf(i), 1, Len(WordOf(i)) - 1) }
CopyInputs(i) ==
    { SentenceOf(i),
      <<"a", " ">> \o WordOf(i),
      <<"A", " ">> }

\* handleCopySentenceSubmit, clean of line 381: punctuation becomes a space
clean(s) ==
    LET low == ToLowerCase(s)
    IN  Trim([i \in 1..Len(low) |-> IF low[i] \in Punctuation THEN " " ELSE low[i]])

\* String.split(/\s+/) of a trimmed string; the empty string gives one empty token
RECURSIVE SplitWS(_)
SplitWS(s) ==
    LET spaces == {i \in 1..Len(s) : s[i] = " "}
    IN  IF spaces = {} THEN <<s>>
        ELSE LET i == CHOOSE x \in spaces : \A y \in spaces : x <= y
                 rest == {j \in (i + 1)..Len(s) : s[j] # " "}
                 j == CHOOSE x \in rest : \A y \in rest : x <= y
             IN  <<SubSeq(s, 1, i - 1)>> \o SplitWS(SubSeq(s, j, Len(s)))

\* a hint made from the last position that differs instead of the first
DiagnoseMismatch_LastDivergence(input, sentence) ==
    LET targetWords == SplitWS(clean(sentence))
        inputWords == SplitWS(clean(input))
        Absent(i) == i > Len(inputWords) \/ inputWords[i] = <<>>
        bad == {i \in 1..Len(targetWords) : Absent(i) \/ inputWords[i] # targetWords[i]}
    IN  IF bad # {}
        THEN LET i == CHOOSE x \in bad : \A y \in bad : x >= y
             IN  IF Absent(i)
                 THEN [kind |-> "Missing", got |-> <<>>, expected |-> targetWords[i]]
                 ELSE [kind |-> "Typo", got |-> inputWords[i], expected |-> targetWords[i]]
        ELSE IF Len(inputWords) > Len(targetWords)
             THEN [kind |-> "Extra", got |-> <<>>, expected |-> <<>>]
             ELSE [kind |-> "Generic", got |-> <<>>, expected |-> <<>>]

\* the hint of lines 381-398, as [kind, got, expected]
DiagnoseMismatch(input, sentence) ==
    LET targetWords == SplitWS(clean(sentence))
        inputWords == SplitWS(clean(input))
        Absent(i) == i > Len(inputWords) \/ inputWords[i] = <<>>
        bad == {i \in 1..Len(targetWords) : Absent(i) \/ inputWords[i] # targetWords[i]}
    IN  IF bad # {}
        THEN LET i == CHOOSE x \in bad : \A y \in bad : x <= y
             IN  IF Absent(i)
                 THEN [kind |-> "Missing", got |-> <<>>, expected |-> targetWords[i]]
                 ELSE [kind |-> "Typo", got |-> inputWords[i], expected |-> targetWords[i]]
        ELSE IF Len(inputWords) > Len(targetWords)
             THEN [kind |-> "Extra", got |-> <<>>, expected |-> <<>>]
             ELSE [kind |-> "Generic", got |-> <<>>, expected |-> <<>>]

\* ------------------------------------------------------------------ state
Null == "null"
NoResult == -1                                  \* pronunciationResult = null
NoHint == [kind |-> "null", got |-> <<>>, expected |-> <<>>]   \* copyError = null
\* stopRecording() without a target text
NoTarget == [targeted |-> FALSE, index |-> 0, flag |-> FALSE]

VARIABLES
    \* useState cells of WordLearning
    currentIndex, step, writeCount, currentInput, sentenceInput, feedback,
    isChecking, copyError, wordError,
    hasAwardedSentencePoints, hasAwardedPronunciationPoints,
    isRecording, isAnalyzingAudio, pronunciationResult, isPlaying,
    \* localWords.length: the words of the list are named by their position
    localWordsLength,
    \* useRef cells of WordLearning
    isMountedRef, currentAudioIdRef, mediaRecorderRef, analyserRef,
    animationFrameRef, isSpeakingRef,
    \* Date.now() - lastSpeakingTimeRef.current, in ms
    sinceLastSpeaking,
    \* the follow-up chat of the sentence step
    chatHistory, questionInput, isAsking,
    \* module state of audioUtils.ts and the source nodes it created
    currentSource, sources,
    \* requests awaiting a collaborator, each with what its closure captured
    speechRequests, sentenceChecks, gradings, acquisitions, asks,
    \* the MediaRecorder objects created so far
    recorders,
    \* calls of the props onAddPoints / onRecordMistake made by the last turn
    awarded, recorded,
    \* console.error / alert calls made by the last turn
    reported,
    \* storageService: the stored mistake list of the user and the calendar day
    mistakes, today,
    \* the handler or continuation that ran in the last turn
    last,
    \* history: the awards and steps of the current run of consecutive correct
    \* word submissions that began at writeCount = 0
    streak,
    \* history: +10 and +5 awards made since the last change of word or jump
    sentenceAwards, pronunciationAwards,
    \* history: points and +3 awards of word submissions since the last change
    \* of word or jump
    drillAwards,
    \* a pure function applied on its own: its arguments and what it returned
    fnInput, fnTarget, fnResult,
    \* App: the stage, the stored article (0: null, else the request that
    \* produced it), isLoading, and the generateArticle / generateVocabulary
    \* calls awaiting their answer
    stage, article, isLoading, articleRequests, vocabularyRequests

uiVars == <<currentIndex, step, writeCount, currentInput, sentenceInput, feedback,
            isChecking, copyError, wordError,
            hasAwardedSentencePoints, hasAwardedPronunciationPoints,
            isRecording, isAnalyzingAudio, pronunciationResult, isPlaying,
            chatHistory, questionInput, isAsking, localWordsLength>>
refVars == <<isMountedRef, currentAudioIdRef, mediaRecorderRef, analyserRef,
             animationFrameRef, isSpeakingRef, sinceLastSpeaking>>
audioVars == <<currentSource, sources>>
flightVars == <<speechRequests, sentenceChecks, gradings, acquisitions, asks,
                recorders>>
outVars == <<awarded, recorded, reported, last>>
storeVars == <<mistakes, today>>
histVars == <<streak, sentenceAwards, pronunciationAwards, drillAwards>>
fnVars == <<fnInput, fnTarget, fnResult>>
appVars == <<stage, article, isLoading, articleRequests, vocabularyRequests>>
vars == <<uiVars, refVars, audioVars, flightVars, outVars, storeVars, histVars,
          fnVars, appVars>>

\* the whole state as one record, so that the calls a handler makes compose
World ==
    [currentIndex |-> currentIndex, step |-> step, writeCount |-> writeCount,
     localWordsLength |-> localWordsLength,
     currentInput |-> currentInput, sentenceInput |-> sentenceInput,
     feedback |-> feedback, isChecking |-> isChecking,
     copyError |-> copyError, wordError |-> wordError,
     hasAwardedSentencePoints |-> hasAwardedSentencePoints,
     hasAwardedPronunciationPoints |-> hasAwardedPronunciationPoints,
     isRecording |-> isRecording, isAnalyzingAudio |-> isAnalyzingAudio,
     pronunciationResult |-> pronunciationResult, isPlaying |-> isPlaying,
     isMountedRef |-> isMountedRef, currentAudioIdRef |-> currentAudioIdRef,
     mediaRecorderRef |-> mediaRecorderRef, analyserRef |-> analyserRef,
     animationFrameRef |-> animationFrameRef, isSpeakingRef |-> isSpeakingRef,
     sinceLastSpeaking |-> sinceLastSpeaking,
     chatHistory |-> chatHistory, questionInput |-> questionInput,
     isAsking |-> isAsking, asks |-> asks,
     mistakes |-> mistakes, today |-> today,
     currentSource |-> currentSource, sources |-> sources,
     speechRequests |-> speechRequests, sentenceChecks |-> sentenceChecks,
     gradings |-> gradings, acquisitions |-> acquisitions,
     recorders |-> recorders,
     awarded |-> <<>>, recorded |-> <<>>, reported |-> <<>>, last |-> last]

\* the bounds every turn respects
WithinBounds(w) ==
    /\ w.currentAudioIdRef <= MaxAudioId
    /\ w.writeCount <= MaxWriteCount
    /\ Len(w.recorders) <= MaxRecorders
    /\ Len(w.gradings) <= MaxGradings
    /\ Len(w.acquisitions) <= MaxAcquiring
    /\ Len(w.chatHistory) <= MaxChat
    /\ Len(w.asks) <= MaxAsks
    /\ Len(w.mistakes) <= MaxMistakes

Continuations == {"SpeechDone", "DecodeDone", "ClipFinished", "EndedEvent",
                  "AcquireDone", "RecorderStopEvent", "GradeDone", "CheckDone",
                  "VadLoud", "VadQuiet", "AskDone"}

Saturate(n) == IF n > AwardCap THEN AwardCap ELSE n

\* bookkeeping of the history variables; no handler reads them
History(w, name) ==
    LET wordReset == w.currentIndex # currentIndex \/ name = "JumpTo"
    IN  /\ streak' =
               IF name = "SubmitWord" /\ w.awarded # <<>>
               THEN IF streak # <<>> \/ writeCount = 0
                    THEN Append(streak, [award |-> w.awarded[1], step |-> w.step])
                    ELSE <<>>
               ELSE IF name = "TypeWord" \/ name \in Continuations THEN streak
               ELSE <<>>
        /\ sentenceAwards' =
               IF wordReset THEN 0
               ELSE IF name = "CheckDone" /\ w.awarded = <<10>>
               THEN Saturate(sentenceAwards + 1) ELSE sentenceAwards
        /\ pronunciationAwards' =
               IF wordReset THEN 0
               ELSE IF name = "GradeDone" /\ w.awarded = <<5>>
               THEN Saturate(pronunciationAwards + 1) ELSE pronunciationAwards
        /\ drillAwards' =
               IF wordReset THEN [points |-> 0, threes |-> 0]
               ELSE IF name = "SubmitWord" /\ w.awarded # <<>>
               THEN [points |-> IF drillAwards.points + w.awarded[1] > MaxDrillPoints
                                THEN MaxDrillPoints
                                ELSE drillAwards.points + w.awarded[1],
                     threes |-> IF w.awarded[1] = 3
                                THEN Saturate(drillAwards.threes + 1)
                                ELSE drillAwards.threes]
               ELSE drillAwards

Commit(w, name) ==
    /\ WithinBounds(w)
    /\ UNCHANGED <<fnVars, appVars>>
    /\ currentIndex' = w.currentIndex
    /\ localWordsLength' = w.localWordsLength
    /\ step' = w.step
    /\ writeCount' = w.writeCount
    /\ currentInput' = w.currentInput
    /\ sentenceInput' = w.sentenceInput
    /\ feedback' = w.feedback
    /\ isChecking' = w.isChecking
    /\ copyError' = w.copyError
    /\ wordError' = w.wordError
    /\ hasAwardedSentencePoints' = w.hasAwardedSentencePoints
    /\ hasAwardedPronunciationPoints' = w.hasAwardedPronunciationPoints
    /\ isRecording' = w.isRecording
    /\ isAnalyzingAudio' = w.isAnalyzingAudio
    /\ pronunciationResult' = w.pronunciationResult
    /\ isPlaying' = w.isPlaying
    /\ isMountedRef' = w.isMountedRef
    /\ currentAudioIdRef' = w.currentAudioIdRef
    /\ mediaRecorderRef' = w.mediaRecorderRef
    /\ analyserRef' = w.analyserRef
    /\ animationFrameRef' = w.animationFrameRef
    /\ isSpeakingRef' = w.isSpeakingRef
    /\ sinceLastSpeaking' = w.sinceLastSpeaking
    /\ chatHistory' = w.chatHistory
    /\ questionInput' = w.questionInput
    /\ isAsking' = w.isAsking
    /\ asks' = w.asks
    /\ reported' = w.reported
    /\ mistakes' = w.mistakes
    /\ today' = w.today
    /\ currentSource' = w.currentSource
    /\ sources' = w.sources
    /\ speechRequests' = w.speechRequests
    /\ sentenceChecks' = w.sentenceChecks
    /\ gradings' = w.gradings
    /\ acquisitions' = w.acquisitions
    /\ recorders' = w.recorders
    /\ awarded' = w.awarded
    /\ recorded' = w.recorded
    /\ last' = name
    /\ History(w, name)

\* ------------------------------------------------------------ audioUtils.ts
\* A source node is "playing" from start() until stop() cuts it ("stopped")
\* or its clip runs out ("finished"); the browser then queues its ended event,
\* whose delivery makes it "ended"; fired counts the calls of the onEnded
\* handed to playAudioBuffer.
\* mutant: forgets the source without stopping it
stopGlobalAudio_Forgets(w) == [w EXCEPT !.currentSource = 0]

stopGlobalAudio(w) ==
    IF w.currentSource # 0
    THEN [w EXCEPT !.sources[w.currentSource].st = IF @ = "playing" THEN "stopped" ELSE @,
                   !.currentSource = 0]
    ELSE w

\* mutant: starts the new source over the one that is playing
playAudioBuffer_NoStop(w, onEnded) ==
    [w EXCEPT !.sources = Append(@, [st |-> "playing", onEnded |-> onEnded, fired |-> 0]),
              !.currentSource = Len(w.sources) + 1]

\* onEnded is the closure handed in by the caller: the request id it captured
playAudioBuffer(w, onEnded) ==
    LET w1 == stopGlobalAudio(w)
        source == [st |-> "playing", onEnded |-> onEnded, fired |-> 0]
    IN  [w1 EXCEPT !.sources = Append(@, source),
                   !.currentSource = Len(w1.sources) + 1]

\* mutant: a source stopped by stop() gets no ended event
EndedPending_FinishedOnly(source) == source.st = "finished"

\* the ended event of a source node is queued and not yet delivered
EndedPending(source) == source.st \in {"stopped", "finished"}

\* ------------------------------------------------------- WordLearning: audio
\* mutant: the continuation checks only that the component is mounted
IsCurrent_MountedOnly(w, audioId) == w.isMountedRef

\* mutant: every continuation takes its request for a stale one
IsCurrent_Never(w, audioId) == FALSE

\* the guard of lines 189, 194, 197 and 206
IsCurrent(w, audioId) == w.isMountedRef /\ audioId = w.currentAudioIdRef

handlePlayAudio(w, text) ==
    LET audioId == w.currentAudioIdRef + 1
        w1 == [w EXCEPT !.currentAudioIdRef = audioId, !.isPlaying = TRUE]
        w2 == stopGlobalAudio(w1)
    IN  [w2 EXCEPT !.speechRequests =
                       @ \cup {[audioId |-> audioId, phase |-> "fetch", text |-> text]}]

\* --------------------------------------------------- WordLearning: recording
\* mutant: stops the recorder without looking at its state
stopRecording_NoStateCheck(w, closure) ==
    LET r == w.mediaRecorderRef
        w1 == [w EXCEPT !.analyserRef = FALSE, !.animationFrameRef = 0]
    IN  IF r # 0
        THEN [w1 EXCEPT !.recorders[r].state = "inactive",
                        !.recorders[r].onstop = closure,
                        !.recorders[r].stopEvent = TRUE,
                        !.isRecording = FALSE]
        ELSE w1

\* mutant: a stop without target text still hands the clip to the analysis
stopRecording_AlwaysAnalyses(w, closure) ==
    LET f == w.animationFrameRef
        w0 == IF f # 0 THEN [w EXCEPT !.recorders[f].frame = FALSE,
                                      !.recorders[f].target = NoTarget,
                                      !.animationFrameRef = 0]
                       ELSE w
        w1 == [w0 EXCEPT !.analyserRef = FALSE]
        r == w1.mediaRecorderRef
    IN  IF r # 0 /\ w1.recorders[r].state # "inactive"
        THEN [w1 EXCEPT
                 !.recorders[r] =
                     [@ EXCEPT !.state = "inactive",
                               !.onstop = [targeted |-> TRUE, index |-> w.currentIndex,
                                           flag |-> w.hasAwardedPronunciationPoints],
                               !.stopEvent = TRUE],
                 !.isRecording = FALSE]
        ELSE w1

\* closure is NoTarget for stopRecording() and, for stopRecording(targetText),
\* what the caller's render captured; a cancelled frame drops its closure
stopRecording(w, closure) ==
    LET f == w.animationFrameRef
        w0 == IF f # 0 THEN [w EXCEPT !.recorders[f].frame = FALSE,
                                      !.recorders[f].target = NoTarget,
                                      !.animationFrameRef = 0]
                       ELSE w
        w1 == [w0 EXCEPT !.analyserRef = FALSE]
        r == w1.mediaRecorderRef
    IN  IF r # 0 /\ w1.recorders[r].state # "inactive"
        THEN [w1 EXCEPT
                 !.recorders[r] =
                     [@ EXCEPT !.state = "inactive",
                               !.onstop = closure,
                               !.tracksLive = IF closure.targeted THEN @ ELSE FALSE,
                               !.stopEvent = TRUE],
                 !.isRecording = FALSE]
        ELSE w1

\* ------------------------------------------------------ WordLearning: effects
\* useEffect of lines 110-139, dependency [currentIndex]
ResetEffect(w) ==
    LET w1 == [w EXCEPT !.copyError = NoHint, !.wordError = Null,
                        !.hasAwardedSentencePoints = FALSE,
                        !.hasAwardedPronunciationPoints = FALSE,
                        !.pronunciationResult = NoResult,
                        !.isRecording = FALSE,
                        !.isAnalyzingAudio = FALSE]
        w2 == stopGlobalAudio(stopRecording(w1, NoTarget))
    IN  [w2 EXCEPT !.isPlaying = FALSE]

\* useEffect of lines 158-161, dependency [currentInput]
InputEffect(w) == [w EXCEPT !.copyError = NoHint, !.wordError = Null]

\* useEffect of lines 169-180, dependency [currentIndex, step, writeCount]
PlayEffect(w) ==
    IF w.step = "learn"
    THEN handlePlayAudio(w, "word")
    ELSE IF w.step = "write_word"
    THEN IF w.writeCount = 0 \/ w.writeCount = 2
         THEN handlePlayAudio(w, "word")
         ELSE w
    ELSE IF w.step = "copy_sentence"
    THEN handlePlayAudio(w, "sentence")
    ELSE w

\* the effects that run after a commit, in the order they are declared;
\* old is the state of the previous render
RunEffects(old, w) ==
    LET w1 == IF w.currentIndex # old.currentIndex THEN ResetEffect(w) ELSE w
        w2 == IF w.currentInput # old.currentInput THEN InputEffect(w1) ELSE w1
    IN  IF <<w.currentIndex, w.step, w.writeCount>> #
           <<old.currentIndex, old.step, old.writeCount>>
        THEN PlayEffect(w2)
        ELSE w2

\* a turn started by the learner: the handler's updates, then the effects
Turn(w, name) == isMountedRef /\ Commit(RunEffects(World, w), name)

\* -------------------------------------------------- WordLearning: handlers
RemoveAt(seq, i) == SubSeq(seq, 1, i - 1) \o SubSeq(seq, i + 1, Len(seq))

resetStepState(w) ==
    [w EXCEPT !.writeCount = 0, !.currentInput = <<>>, !.sentenceInput = <<>>,
              !.feedback = Null, !.copyError = NoHint, !.wordError = Null,
              !.isPlaying = FALSE,
              !.chatHistory = <<>>, !.questionInput = <<>>,
              !.hasAwardedSentencePoints = FALSE,
              !.hasAwardedPronunciationPoints = FALSE,
              !.pronunciationResult = NoResult,
              !.isRecording = FALSE]

\* cleanup of the effect of lines 97-107
Cleanup(w) ==
    stopRecording(stopGlobalAudio([w EXCEPT !.isMountedRef = FALSE]), NoTarget)

\* mutant: the recall repetition is paid like a copy
handleWordInputSubmit_FlatAward(w) ==
    IF WordMatches(w.currentInput, WordOf(w.currentIndex))
    THEN LET newCount == w.writeCount + 1
         IN  [w EXCEPT !.awarded = <<1>>,
                       !.writeCount = newCount,
                       !.currentInput = <<>>,
                       !.wordError = Null,
                       !.step = IF newCount >= 3 THEN "copy_sentence" ELSE @]
    ELSE LET w1 == handlePlayAudio([w EXCEPT !.wordError = "Incorrect spelling"], "word")
         IN  [w1 EXCEPT !.recorded =
                 <<[type |-> "spelling", word |-> w.currentIndex,
                    userInput |-> w.currentInput,
                    correction |-> WordOf(w.currentIndex)]>>]

\* mutant: a wrong spelling is logged but the word is not replayed
handleWordInputSubmit_NoReplay(w) ==
    IF WordMatches(w.currentInput, WordOf(w.currentIndex))
    THEN LET newCount == w.writeCount + 1
         IN  [w EXCEPT !.awarded = IF w.writeCount < 2 THEN <<1>> ELSE <<3>>,
                       !.writeCount = newCount,
                       !.currentInput = <<>>,
                       !.wordError = Null,
                       !.step = IF newCount >= 3 THEN "copy_sentence" ELSE @]
    ELSE [w EXCEPT !.wordError = "Incorrect spelling",
                   !.recorded =
                       <<[type |-> "spelling", word |-> w.currentIndex,
                          userInput |-> w.currentInput,
                          correction |-> WordOf(w.currentIndex)]>>]

handleWordInputSubmit(w) ==
    IF WordMatches(w.currentInput, WordOf(w.currentIndex))
    THEN LET newCount == w.writeCount + 1
         IN  [w EXCEPT !.awarded = IF w.writeCount < 2 THEN <<1>> ELSE <<3>>,
                       !.writeCount = newCount,
                       !.currentInput = <<>>,
                       !.wordError = Null,
                       !.step = IF newCount >= 3 THEN "copy_sentence" ELSE @]
    ELSE LET w1 == handlePlayAudio([w EXCEPT !.wordError = "Incorrect spelling"],
                                   "word")
         IN  [w1 EXCEPT !.recorded =
                 <<[type |-> "spelling", word |-> w.currentIndex,
                    userInput |-> w.currentInput,
                    correction |-> WordOf(w.currentIndex)]>>]

\* mutant: a matching copy is paid like a made sentence and the box keeps it
handleCopySentenceSubmit_Pays10(w) ==
    IF SentenceMatches(w.currentInput, SentenceOf(w.currentIndex))
    THEN [w EXCEPT !.awarded = <<10>>, !.step = "make_sentence", !.copyError = NoHint]
    ELSE [w EXCEPT !.copyError =
                       DiagnoseMismatch(w.currentInput, SentenceOf(w.currentIndex))]

\* mutant: a failed copy is logged as a mistake, like a misspelt word
handleCopySentenceSubmit_Records(w) ==
    IF SentenceMatches(w.currentInput, SentenceOf(w.currentIndex))
    THEN [w EXCEPT !.awarded = <<5>>, !.currentInput = <<>>,
                   !.step = "make_sentence", !.copyError = NoHint]
    ELSE [w EXCEPT !.copyError =
                       DiagnoseMismatch(w.currentInput, SentenceOf(w.currentIndex)),
                   !.recorded =
                       <<[type |-> "spelling", word |-> w.currentIndex,
                          userInput |-> w.currentInput,
                          correction |-> SentenceOf(w.currentIndex)]>>]

handleCopySentenceSubmit(w) ==
    IF SentenceMatches(w.currentInput, SentenceOf(w.currentIndex))
    THEN [w EXCEPT !.awarded = <<5>>, !.currentInput = <<>>,
                   !.step = "make_sentence", !.copyError = NoHint]
    ELSE [w EXCEPT !.copyError =
                       DiagnoseMismatch(w.currentInput, SentenceOf(w.currentIndex))]

\* up to the await: the request carries what the closure of this render holds
handleMakeSentenceSubmit(w) ==
    [w EXCEPT !.isChecking = TRUE,
              !.sentenceChecks = Append(@,
                  [index |-> w.currentIndex, step |-> w.step,
                   flag |-> w.hasAwardedSentencePoints,
                   input |-> w.sentenceInput])]

handleRetrySentence(w) ==
    [w EXCEPT !.sentenceInput = <<>>, !.feedback = Null, !.isChecking = FALSE,
              !.chatHistory = <<>>, !.questionInput = <<>>]

\* mutant: moves to the next word without resetting the step state
handleNextWord_NoReset(w) ==
    IF w.currentIndex < w.localWordsLength - 1
    THEN [w EXCEPT !.currentIndex = @ + 1, !.step = "learn"]
    ELSE [Cleanup(w) EXCEPT !.reported = <<"onComplete">>]

\* onComplete makes the parent leave the WORD_LEARNING stage, which unmounts
handleNextWord(w) ==
    IF w.currentIndex < w.localWordsLength - 1
    THEN resetStepState([w EXCEPT !.currentIndex = @ + 1, !.step = "learn"])
    ELSE [Cleanup(w) EXCEPT !.reported = <<"onComplete">>]

handleJumpTo(w, index) ==
    resetStepState([w EXCEPT !.currentIndex = index, !.step = "learn"])

\* mutant: from learn on a later word, back to the previous word's first step
goBack_ToLearn(w) ==
    IF w.step = "write_word" THEN [w EXCEPT !.step = "learn"]
    ELSE IF w.step = "copy_sentence" THEN [w EXCEPT !.step = "write_word"]
    ELSE IF w.step = "make_sentence" THEN [w EXCEPT !.step = "copy_sentence"]
    ELSE IF w.currentIndex > 0
    THEN resetStepState([w EXCEPT !.currentIndex = @ - 1, !.step = "learn"])
    ELSE w

goBack(w) ==
    IF w.step = "write_word" THEN [w EXCEPT !.step = "learn"]
    ELSE IF w.step = "copy_sentence" THEN [w EXCEPT !.step = "write_word"]
    ELSE IF w.step = "make_sentence" THEN [w EXCEPT !.step = "copy_sentence"]
    ELSE IF w.currentIndex > 0
    THEN resetStepState([w EXCEPT !.currentIndex = @ - 1, !.step = "make_sentence"])
    ELSE w

goNext(w) ==
    IF w.step = "learn" THEN [w EXCEPT !.step = "write_word"]
    ELSE IF w.step = "write_word" THEN [w EXCEPT !.step = "copy_sentence"]
    ELSE IF w.step = "copy_sentence" THEN [w EXCEPT !.step = "make_sentence"]
    ELSE handleNextWord(w)

\* the button of lines 972-980
StartCopying(w) == resetStepState([w EXCEPT !.step = "write_word"])

\* ------------------------------------------------------- the learner's turns
TypeWord ==
    /\ step \in {"write_word", "copy_sentence"}
    /\ \E s \in (IF step = "write_word" THEN WordInputs(currentIndex)
                                         ELSE CopyInputs(currentIndex)) :
          /\ s # currentInput
          /\ Turn([World EXCEPT !.currentInput = s], "TypeWord")

SubmitWord ==
    /\ step = "write_word"
    /\ Turn(handleWordInputSubmit(World), "SubmitWord")

SubmitCopy ==
    /\ step = "copy_sentence"
    /\ Turn(handleCopySentenceSubmit(World), "SubmitCopy")

SentenceInputs == {<<"c", "a", "t">>}

TypeSentence ==
    /\ step = "make_sentence"
    /\ ~isChecking /\ feedback # "correct"
    /\ \E s \in SentenceInputs :
          /\ s # sentenceInput
          /\ Turn([World EXCEPT !.sentenceInput = s], "TypeSentence")

SubmitSentence ==
    /\ step = "make_sentence"
    /\ feedback = Null /\ ~isChecking
    /\ Trim(sentenceInput) # <<>>
    /\ Turn(handleMakeSentenceSubmit(World), "SubmitSentence")

RetrySentence ==
    /\ step = "make_sentence" /\ feedback # Null
    /\ Turn(handleRetrySentence(World), "RetrySentence")

NextWord ==
    /\ step = "make_sentence" /\ feedback # Null
    /\ Turn(handleNextWord(World), "NextWord")

JumpTo ==
    \E index \in 0..(localWordsLength - 1) :
        Turn(handleJumpTo(World, index), "JumpTo")

GoBack == Turn(goBack(World), "GoBack")

GoNext == Turn(goNext(World), "GoNext")

StartButton ==
    /\ step = "learn"
    /\ Turn(StartCopying(World), "StartButton")

PlayButton ==
    /\ \E kind \in {"word", "sentence", "correction"} :
          /\ kind = "sentence" => step = "copy_sentence"
          /\ kind = "correction" => step = "make_sentence" /\ feedback # Null
          /\ Turn(handlePlayAudio(World, kind),
                  "PlayButton")

\* the parent leaves the stage (Header reset), React runs the cleanup
Unmount ==
    /\ isMountedRef
    /\ Commit(Cleanup(World), "Unmount")

\* the parent hands in another words prop: the effect of lines 97-107 is
\* cleaned up and run again, and takes the new list when its first word is
\* not the first word of localWords.  currentIndex is left as it is; when it
\* has no word in the new list, the render reads currentWord.word of
\* undefined and throws, and React unmounts the tree.
ReplaceWords ==
    \E length \in 1..NumWords, firstDiffers \in BOOLEAN :
        /\ isMountedRef
        /\ LET w1 == stopRecording(stopGlobalAudio(World), NoTarget)
               w2 == IF firstDiffers THEN [w1 EXCEPT !.localWordsLength = length]
                                     ELSE w1
           IN  Commit(IF w2.currentIndex < w2.localWordsLength THEN w2
                      ELSE Cleanup(w2),
                      "ReplaceWords")

\* what the render of a record button captures for stopRecording / startRecording
Target == [targeted |-> TRUE, index |-> currentIndex,
           flag |-> hasAwardedPronunciationPoints]

\* up to the await of getUserMedia
startRecording(w, closure) ==
    [w EXCEPT !.pronunciationResult = NoResult,
              !.acquisitions = Append(@, closure)]

toggleRecording(w, closure) ==
    IF w.isRecording THEN stopRecording(w, closure) ELSE startRecording(w, closure)

ToggleRecording ==
    /\ ~isAnalyzingAudio
    /\ step = "make_sentence" => feedback # Null
    /\ Turn(toggleRecording(World, Target), "ToggleRecording")

\* ------------------------------------------------ continuations and events
\* after `await generateSpeech(text)`, lines 188-209
SpeechDone ==
    \E r \in speechRequests, outcome \in {"audio", "absent", "error"} :
        /\ r.phase = "fetch"
        /\ LET w == [World EXCEPT !.speechRequests = @ \ {r}]
               current == IsCurrent(w, r.audioId)
           IN  Commit(
                 IF outcome = "error"
                 THEN [w EXCEPT !.reported = <<"console.error">>,
                                !.isPlaying = IF current THEN FALSE ELSE @]
                 ELSE IF ~current THEN w
                 ELSE IF outcome = "audio"
                 THEN [w EXCEPT !.speechRequests = @ \cup {[r EXCEPT !.phase = "decode"]}]
                 ELSE IF w.isMountedRef THEN [w EXCEPT !.isPlaying = FALSE] ELSE w,
                 "SpeechDone")

\* after `await decodeAudioData(...)`, lines 193-209
DecodeDone ==
    \E r \in speechRequests, ok \in BOOLEAN :
        /\ r.phase = "decode"
        /\ LET w == [World EXCEPT !.speechRequests = @ \ {r}]
               current == IsCurrent(w, r.audioId)
           IN  Commit(
                 IF ~ok
                 THEN [w EXCEPT !.reported = <<"console.error">>,
                                !.isPlaying = IF current THEN FALSE ELSE @]
                 ELSE IF ~current THEN w
                 ELSE playAudioBuffer(w, r.audioId),
                 "DecodeDone")

\* the clip of a source node plays to its end
ClipFinished ==
    \E k \in 1..Len(sources) :
        /\ sources[k].st = "playing"
        /\ Commit([World EXCEPT !.sources[k].st = "finished"], "ClipFinished")

\* source.onended of playAudioBuffer with the onEnded of handlePlayAudio
EndedEvent ==
    \E k \in 1..Len(sources) :
        /\ EndedPending(sources[k])
        /\ LET w == [World EXCEPT !.sources[k].st = "ended",
                                  !.sources[k].fired = @ + 1,
                                  !.currentSource = IF @ = k THEN 0 ELSE @]
           IN  Commit(
                 IF IsCurrent(w, sources[k].onEnded)
                 THEN [w EXCEPT !.isPlaying = FALSE] ELSE w,
                 "EndedEvent")

\* mutant: a failed acquisition is asked for again
startRecordingFailed_Retries(w, closure) ==
    [w EXCEPT !.reported = <<"console.error", "alert">>,
              !.acquisitions = Append(@, closure)]

\* the catch of lines 274-277, for a startRecording called with closure
startRecordingFailed(w, closure) ==
    [w EXCEPT !.reported = <<"console.error", "alert">>]

\* after `await getUserMedia`, lines 223-277: the recorder starts, the first
\* detectSilence call runs and schedules the next frame; target is what the
\* closure of detectSilence holds for stopRecording(targetText)
AcquireDone ==
    \E i \in 1..Len(acquisitions), ok \in BOOLEAN, loud \in BOOLEAN :
        LET w == [World EXCEPT !.acquisitions = RemoveAt(@, i)]
            k == Len(recorders) + 1
        IN  Commit(
              IF ok
              THEN [w EXCEPT
                      !.recorders = Append(@,
                          [state |-> "recording", onstop |-> NoTarget,
                           tracksLive |-> TRUE, stopEvent |-> FALSE,
                           frame |-> TRUE, target |-> acquisitions[i],
                           finished |-> 0]),
                      !.mediaRecorderRef = k,
                      !.isRecording = IF w.isMountedRef THEN TRUE ELSE @,
                      !.analyserRef = TRUE,
                      !.isSpeakingRef = loud,
                      !.sinceLastSpeaking = 0,
                      !.animationFrameRef = k]
              ELSE startRecordingFailed(w, acquisitions[i]),
              "AcquireDone")

\* one run of detectSilence (lines 248-272) in the loop of recorder k: loud is
\* rms > THRESHOLD at this frame, ms the time since lastSpeakingTimeRef
detectSilence(w, k, loud, ms) ==
    LET target == w.recorders[k].target
        w0 == [w EXCEPT !.recorders[k].frame = FALSE,
                        !.recorders[k].target = NoTarget]
        w1 == IF loud THEN [w0 EXCEPT !.isSpeakingRef = TRUE, !.sinceLastSpeaking = 0]
                      ELSE [w0 EXCEPT !.sinceLastSpeaking = ms]
    IN  IF ~w.analyserRef THEN w0
        ELSE IF w1.isSpeakingRef /\ w1.sinceLastSpeaking > SilenceStopMs
        THEN stopRecording(w1, target)
        ELSE IF ~w1.isSpeakingRef /\ w1.sinceLastSpeaking > NoSpeechStopMs
        THEN stopRecording(w1, NoTarget)
        ELSE [w1 EXCEPT !.recorders[k].frame = TRUE,
                        !.recorders[k].target = target,
                        !.animationFrameRef = k]

\* the sampling loops with a frame scheduled
Frames == {k \in 1..Len(recorders) : recorders[k].frame}

\* an animation frame at which the signal is above the threshold
VadLoud ==
    \E k \in Frames : Commit(detectSilence(World, k, TRUE, 0), "VadLoud")

\* an animation frame at which the signal is at or below the threshold; the
\* clock has advanced since the previous frame
VadQuiet ==
    \E k \in Frames, ms \in ElapsedMs :
        /\ ms > sinceLastSpeaking \/ ms = NoSpeechStopMs + 1
        /\ Commit(detectSilence(World, k, FALSE, ms), "VadQuiet")

handleAnalyzeAudio(w, closure) ==
    [w EXCEPT !.isAnalyzingAudio = IF w.isMountedRef THEN TRUE ELSE @,
              !.gradings = Append(@, closure)]

\* mutant: the stop event of a recorder stays queued and is delivered again
RecorderStopEvent_Redelivers ==
    \E k \in 1..Len(recorders) :
        /\ recorders[k].stopEvent
        /\ recorders[k].finished < 2
        /\ LET w == [World EXCEPT !.recorders[k].finished =
                                      IF recorders[k].onstop.targeted THEN @ + 1 ELSE @]
           IN  Commit(
                 IF recorders[k].onstop.targeted
                 THEN handleAnalyzeAudio(w, recorders[k].onstop)
                 ELSE w,
                 "RecorderStopEvent")

\* the stop event of a MediaRecorder, with the onstop of lines 300-304;
\* finished counts the calls of handleAnalyzeAudio with this recorder's clip
RecorderStopEvent ==
    \E k \in 1..Len(recorders) :
        /\ recorders[k].stopEvent
        /\ LET w == [World EXCEPT !.recorders[k].stopEvent = FALSE,
                                  !.recorders[k].onstop = NoTarget,
                                  !.recorders[k].finished =
                                      IF recorders[k].onstop.targeted THEN @ + 1 ELSE @]
               r == w.mediaRecorderRef
           IN  Commit(
                 IF recorders[k].onstop.targeted
                 THEN handleAnalyzeAudio(
                        IF r # 0 THEN [w EXCEPT !.recorders[r].tracksLive = FALSE] ELSE w,
                        recorders[k].onstop)
                 ELSE w,
                 "RecorderStopEvent")

\* after `await evaluatePronunciation(...)`, lines 318-333; score -1: rejected
GradeDone ==
    \E i \in 1..Len(gradings), score \in Scores \cup {-1} :
        LET g == gradings[i]
            w == [World EXCEPT !.gradings = RemoveAt(@, i)]
            w1 == IF score >= 0 /\ w.isMountedRef
                  THEN IF score >= PronunciationThreshold /\ ~g.flag
                       THEN [w EXCEPT !.pronunciationResult = score,
                                      !.awarded = <<5>>,
                                      !.hasAwardedPronunciationPoints = TRUE]
                       ELSE [w EXCEPT !.pronunciationResult = score]
                  ELSE IF score < 0
                  THEN [w EXCEPT !.reported = <<"console.error", "alert">>]
                  ELSE w
        IN  Commit(IF w1.isMountedRef THEN [w1 EXCEPT !.isAnalyzingAudio = FALSE] ELSE w1,
                   "GradeDone")

\* mutant: the finally of handleMakeSentenceSubmit is skipped
handleMakeSentenceSubmitFinally_Skipped(w) == w

\* the finally of handleMakeSentenceSubmit, lines 428-430
handleMakeSentenceSubmitFinally(w) ==
    IF w.isMountedRef THEN [w EXCEPT !.isChecking = FALSE] ELSE w

\* mutant: the grammar mistake carries the corrected sentence as the input
GrammarMistake_LosesInput(c) ==
    [type |-> "grammar", word |-> c.index,
     userInput |-> <<"f", "i", "x">>,
     correction |-> <<"f", "i", "x">>,
     explanation |-> <<"w", "h", "y">>]

\* the record of lines 413-423, for the request c of the submitting render;
\* correction and explanation are what checkSentence returned
GrammarMistake(c) ==
    [type |-> "grammar", word |-> c.index,
     userInput |-> c.input,
     correction |-> <<"f", "i", "x">>,
     explanation |-> <<"w", "h", "y">>]

\* after `await checkSentence(...)`, lines 406-430
CheckDone ==
    \E i \in 1..Len(sentenceChecks), verdict \in {"correct", "incorrect", "error"} :
        LET c == sentenceChecks[i]
            w == [World EXCEPT !.sentenceChecks = RemoveAt(@, i)]
            w1 == IF verdict # "error" /\ w.isMountedRef
                  THEN IF verdict = "correct" /\ ~c.flag
                       THEN [w EXCEPT !.feedback = verdict,
                                      !.awarded = <<10>>,
                                      !.hasAwardedSentencePoints = TRUE]
                       ELSE IF verdict = "incorrect"
                       THEN [w EXCEPT !.feedback = verdict,
                                      !.recorded = <<GrammarMistake(c)>>]
                       ELSE [w EXCEPT !.feedback = verdict]
                  ELSE IF verdict = "error"
                  THEN [w EXCEPT !.reported = <<"console.error">>]
                  ELSE w
        IN  Commit(handleMakeSentenceSubmitFinally(w1), "CheckDone")

\* the follow-up chat: handleAskSubmit up to the await, lines 441-449
handleAskSubmit(w) ==
    [w EXCEPT !.questionInput = <<>>,
              !.chatHistory = Append(w.chatHistory, "user"),
              !.isAsking = TRUE,
              !.asks = Append(@, [index |-> w.currentIndex])]

QuestionInputs == {<<"w", "h", "y">>}

TypeQuestion ==
    /\ step = "make_sentence" /\ feedback # Null /\ ~isAsking
    /\ \E s \in QuestionInputs :
          /\ s # questionInput
          /\ Turn([World EXCEPT !.questionInput = s], "TypeQuestion")

AskSubmit ==
    /\ step = "make_sentence" /\ feedback # Null /\ ~isAsking
    /\ Trim(questionInput) # <<>>
    /\ Turn(handleAskSubmit(World), "AskSubmit")

\* after `await askGrammarQuestion(...)`, lines 450-462
AskDone ==
    \E i \in 1..Len(asks), ok \in BOOLEAN :
        LET w == [World EXCEPT !.asks = RemoveAt(@, i)]
            w1 == IF ~ok THEN [w EXCEPT !.reported = <<"console.error">>]
                  ELSE IF w.isMountedRef
                  THEN [w EXCEPT !.chatHistory = Append(@, "ai")]
                  ELSE w
        IN  Commit(IF w1.isMountedRef THEN [w1 EXCEPT !.isAsking = FALSE] ELSE w1,
                   "AskDone")

\* ---------------------------------------------------------- storageService
\* dataService.addMistake: a mistake is [word, type, date]
addMistake(w, mistake) ==
    LET exists == \E i \in 1..Len(w.mistakes) :
                      /\ w.mistakes[i].word = mistake.word
                      /\ w.mistakes[i].type = mistake.type
                      /\ w.mistakes[i].date = w.today
    IN  IF ~exists THEN [w EXCEPT !.mistakes = <<mistake>> \o @] ELSE w

\* a caller hands over a record it stamped on the day it was made
AddMistake ==
    \E word \in 0..(NumWords - 1), type \in {"spelling", "grammar"}, date \in 1..today :
        Commit(addMistake(World, [word |-> word, type |-> type, date |-> date]),
               "AddMistake")

\* midnight passes: new Date().toLocaleDateString() changes
NextDay ==
    /\ today < NumDays
    /\ Commit([World EXCEPT !.today = @ + 1], "NextDay")

\* ------------------------------------------------------------ specifications
\* after the first render: the reset effect found nothing to stop and the play
\* effect issued the speak request for the first word
\* App while it shows the given stage with the given article, nothing awaited
InitStage(shown, stored) ==
    /\ stage = shown /\ article = stored /\ isLoading = FALSE
    /\ articleRequests = {} /\ vocabularyRequests = 0

\* a component that has issued no request yet
InitIdle ==
    /\ localWordsLength = NumWords
    /\ currentIndex = 0 /\ step = "learn" /\ writeCount = 0
    /\ currentInput = <<>> /\ sentenceInput = <<>>
    /\ feedback = Null /\ isChecking = FALSE
    /\ copyError = NoHint /\ wordError = Null
    /\ hasAwardedSentencePoints = FALSE /\ hasAwardedPronunciationPoints = FALSE
    /\ isRecording = FALSE /\ isAnalyzingAudio = FALSE
    /\ pronunciationResult = NoResult
    /\ isMountedRef = TRUE
    /\ mediaRecorderRef = 0 /\ analyserRef = FALSE
    /\ animationFrameRef = 0 /\ isSpeakingRef = FALSE
    /\ sinceLastSpeaking = 0
    /\ chatHistory = <<>> /\ questionInput = <<>> /\ isAsking = FALSE
    /\ asks = <<>> /\ reported = <<>>
    /\ mistakes = <<>> /\ today = 1
    /\ currentSource = 0 /\ sources = <<>>
    /\ sentenceChecks = <<>> /\ gradings = <<>> /\ acquisitions = <<>>
    /\ recorders = <<>>
    /\ awarded = <<>> /\ recorded = <<>>
    /\ last = "mount"
    /\ streak = <<>> /\ sentenceAwards = 0 /\ pronunciationAwards = 0
    /\ drillAwards = [points |-> 0, threes |-> 0]

\* WordLearning after its first render: the effect of lines 169-180 has asked
\* for the word to be spoken
InitComponent ==
    /\ InitIdle /\ InitStage("WORD_LEARNING", 0)
    /\ isPlaying = TRUE /\ currentAudioIdRef = 1
    /\ speechRequests = {[audioId |-> 1, phase |-> "fetch", text |-> "word"]}

Init == InitComponent /\ fnInput = <<>> /\ fnTarget = <<>> /\ fnResult = <<>>

\* a pure function is called once, outside the component: name is the
\* function, value what it returns for fnInput and fnTarget
Apply(name, value) ==
    /\ last = "mount"
    /\ fnResult' = value
    /\ last' = name
    /\ UNCHANGED <<uiVars, refVars, audioVars, flightVars, storeVars, histVars,
                   awarded, recorded, reported, fnInput, fnTarget, appVars>>

\* the strings of at most n characters over an alphabet
Strings(alphabet, n) == UNION {[1..k -> alphabet] : k \in 0..n}

Speech == SpeechDone \/ DecodeDone \/ ClipFinished \/ EndedEvent

Navigation == JumpTo \/ GoBack \/ GoNext \/ StartButton \/ Unmount

\* The typing exercises of the drill.  No handler of this specification reads
\* what the speech continuations write (isPlaying, the source nodes), so the
\* speak requests it issues stay unanswered here; SpecAudio answers them.
NextDrill ==
    \/ TypeWord \/ SubmitWord \/ SubmitCopy
    \/ TypeSentence \/ SubmitSentence \/ RetrySentence \/ CheckDone
    \/ NextWord \/ Navigation

SpecDrill == Init /\ [][NextDrill]_vars

\* Playback: the learner's turns that issue or cancel speak requests, and the
\* speech continuations in every interleaving.
InFlightBound == Cardinality(speechRequests') <= MaxInFlight

NextAudio ==
    \/ PlayButton /\ InFlightBound
    \/ JumpTo /\ InFlightBound
    \/ GoBack /\ InFlightBound
    \/ GoNext /\ InFlightBound
    \/ StartButton /\ InFlightBound
    \/ Unmount
    \/ Speech

SpecAudio == Init /\ [][NextAudio]_vars

\* audioUtils.ts called directly, in any order: what its other callers
\* (ArticleView, Notebook) may do.  The onEnded handed in belongs to no speak
\* request of the drill component (request ids start at 1).
CallPlay ==
    /\ Len(sources) < MaxSources
    /\ Commit(playAudioBuffer(World, 0), "CallPlay")

CallStop == Commit(stopGlobalAudio(World), "CallStop")

NextPlayback == CallPlay \/ CallStop \/ ClipFinished \/ EndedEvent

SpecPlayback == Init /\ [][NextPlayback]_vars

\* the browser delivers every queued ended event, and every clip is finite
SpecPlaybackFair ==
    SpecPlayback /\ WF_vars(EndedEvent) /\ WF_vars(ClipFinished)

\* Pronunciation practice: recording, grading and the navigation that resets it.
\* the record button, pressed again only once the microphone has been granted
\* or refused
RecordPatiently == (isRecording \/ acquisitions = <<>>) /\ ToggleRecording

NextPron ==
    \/ RecordPatiently \/ AcquireDone \/ RecorderStopEvent \/ GradeDone
    \/ Navigation

SpecPron == Init /\ [][NextPron]_vars

\* A capture session with everything that can end it: the button, the
\* sampling loop, a jump (which resets the step state) and the unmount.
NextCapture ==
    \/ ToggleRecording \/ AcquireDone
    \/ VadLoud \/ VadQuiet
    \/ RecorderStopEvent \/ GradeDone
    \/ JumpTo \/ Unmount

SpecCapture == Init /\ [][NextCapture]_vars

\* Capture sessions left to the sampling loop: the learner starts them and
\* never stops them by hand.
StartRecording == ~isRecording /\ ToggleRecording

NextVad ==
    \/ StartRecording \/ AcquireDone
    \/ VadLoud \/ VadQuiet
    \/ RecorderStopEvent \/ GradeDone

SpecVad == Init /\ [][NextVad]_vars

\* the browser runs every scheduled animation frame, delivers every queued
\* stop event, and the grading service answers
SpecVadFair ==
    SpecVad /\ WF_vars(VadQuiet) /\ WF_vars(RecorderStopEvent) /\ WF_vars(GradeDone)

\* Stopping: playback and capture with every caller of the two stop functions.
NextStop ==
    \/ CallPlay \/ CallStop \/ ClipFinished \/ EndedEvent
    \/ ToggleRecording \/ AcquireDone \/ RecorderStopEvent \/ GradeDone
    \/ Unmount

SpecStop == Init /\ [][NextStop]_vars

\* The mistake store under any sequence of addMistake calls.
NextStorage == AddMistake \/ NextDay

SpecStorage == Init /\ [][NextStorage]_vars

\* ------------------------------------------------------------------ claims
DrillScenario ==
    <<[award |-> 1, step |-> "write_word"],
      [award |-> 1, step |-> "write_word"],
      [award |-> 3, step |-> "copy_sentence"]>>

\* C1: from Drill with repetitionCount 0, consecutive correct word submissions
\* award +1, +1, +3 in that order; the step is still Drill after the first and
\* the second and is CopySentence after the third.
C1_DrillScenario ==
    /\ Len(streak) <= 3
    /\ streak = SubSeq(DrillScenario, 1, Len(streak))

C1_Witness == Len(streak) = 3 /\ last = "SubmitWord" /\ step = "copy_sentence"

\* C2: in every reachable state repetitionCount (writeCount) is within 0..3.
C2_WriteCountRange == writeCount \in 0..3

\* C3: repetitionCount is 0 right after every change of the active word and
\* right after every transition from Learn into Drill, whichever control made it.
C3_ResetOnEntry ==
    [][(currentIndex' # currentIndex \/ (step = "learn" /\ step' = "write_word"))
          => writeCount' = 0]_vars

\* C4: a Drill submission that does not match the word leaves repetitionCount
\* and step unchanged, awards nothing, emits one spelling mistake for the
\* current word and issues a new speak request for the word.
C4_MismatchFrame ==
    [][(last' = "SubmitWord" /\ ~WordMatches(currentInput, WordOf(currentIndex)))
          => /\ writeCount' = writeCount
             /\ step' = step
             /\ awarded' = <<>>
             /\ Len(recorded') = 1
             /\ recorded'[1].type = "spelling"
             /\ recorded'[1].word = currentIndex
             /\ currentAudioIdRef' = currentAudioIdRef + 1
             /\ speechRequests' = speechRequests \cup
                    {[audioId |-> currentAudioIdRef', phase |-> "fetch", text |-> "word"]}]_vars

C4_Witness ==
    /\ last = "SubmitWord" /\ step = "write_word" /\ writeCount = 1
    /\ Len(recorded) = 1 /\ recorded[1].type = "spelling"

\* C5: for one word, between two changes of word or jumps, the +10 MakeSentence
\* award is made at most once, and a retry never clears the sentence-points flag.
C5_SentenceAwardOnce ==
    [][/\ sentenceAwards' <= 1
       /\ last' = "RetrySentence" =>
              hasAwardedSentencePoints' = hasAwardedSentencePoints]_vars

\* C6: for one word, between two changes of word or jumps, the +5 pronunciation
\* bonus is awarded at most once, and only by a grading result of score >= 60
\* applied while the pronunciation flag is unset.
C6_PronunciationAwardOnce ==
    [][/\ pronunciationAwards' <= 1
       /\ (last' = "GradeDone" /\ awarded' = <<5>>) =>
              /\ ~hasAwardedPronunciationPoints
              /\ pronunciationResult' >= PronunciationThreshold]_vars

\* a sentence check / a grading completes in this step after the learner has
\* left the word or step it was issued in
StaleCheckDone ==
    /\ last' = "CheckDone"
    /\ \E i \in 1..Len(sentenceChecks) :
          /\ sentenceChecks' = RemoveAt(sentenceChecks, i)
          /\ sentenceChecks[i].index # currentIndex \/ sentenceChecks[i].step # step
StaleGradeDone ==
    /\ last' = "GradeDone"
    /\ \E i \in 1..Len(gradings) :
          /\ gradings' = RemoveAt(gradings, i)
          /\ gradings[i].index # currentIndex

\* C7: the result of a grading call that completes after the learner has gone
\* to another word or step is dropped: feedback, pronunciation result, scoring
\* flags, points and the mistake log stay as they are.
C7_StaleResultDropped ==
    [][(StaleCheckDone \/ StaleGradeDone)
          => /\ feedback' = feedback
             /\ pronunciationResult' = pronunciationResult
             /\ hasAwardedSentencePoints' = hasAwardedSentencePoints
             /\ hasAwardedPronunciationPoints' = hasAwardedPronunciationPoints
             /\ awarded' = <<>>
             /\ recorded' = <<>>]_vars

Audible == {k \in 1..Len(sources) : sources[k].st = "playing"}

\* a continuation or an ended event of a request that is not the latest runs
StaleSpeechStep ==
    \/ \E r \in speechRequests \ speechRequests' : r.audioId # currentAudioIdRef
    \/ \E k \in 1..Len(sources) :
          /\ sources[k].st # "ended" /\ sources'[k].st = "ended"
          /\ sources[k].onEnded # currentAudioIdRef

\* C8: among overlapping speak requests only the latest may start playback or
\* clear isPlaying; the completion, failure or clip end of an earlier request
\* changes neither isPlaying nor the audible clip, and no clip of an earlier
\* request is audible.
C8_OnlyLatestApplies ==
    [][/\ StaleSpeechStep =>
              /\ isPlaying' = isPlaying
              /\ currentSource' = currentSource
              /\ Audible' = Audible
       /\ \A k \in 1..Len(sources') :
              sources'[k].st = "playing" => sources'[k].onEnded = currentAudioIdRef']_vars

C8_Witness ==
    /\ last = "DecodeDone" /\ isMountedRef /\ isPlaying
    /\ Audible = {}
    /\ \E r \in speechRequests : r.audioId = currentAudioIdRef /\ r.phase = "decode"

\* C9: at most one source is started and not stopped at any moment.
C9_OneAudibleClip == Cardinality(Audible) <= 1

C9_Witness ==
    \E k \in 2..Len(sources) :
        /\ last = "CallPlay"
        /\ sources[k].st = "playing" /\ sources[k - 1].st = "stopped"

\* C10 as stated: once B has been started, onEnded(A) has fired exactly once.
C10_EndedBeforeNext ==
    \A k \in 1..(Len(sources) - 1) : sources[k].fired = 1

\* C10 amended: play(A) then play(B) silences A before B is audible and fires
\* onEnded(A) exactly once, and onEnded(B) exactly once, but onEnded(A) fires
\* when the browser delivers A's ended event, which is after B has started.
C10_EndedOnceEach ==
    /\ [](\A k \in 1..Len(sources) :
              /\ sources[k].fired <= 1
              /\ k < Len(sources) => sources[k].st # "playing")
    /\ \A k \in 1..MaxSources :
           [](Len(sources) >= k => <>(Len(sources) >= k /\ sources[k].fired = 1))

C10_Witness ==
    /\ last = "EndedEvent" /\ Len(sources) >= 2
    /\ sources[1].fired = 1 /\ sources[2].st = "playing"

\* no recorder is active: the capture session is idle
CaptureIdle ==
    mediaRecorderRef = 0 \/ recorders[mediaRecorderRef].state = "inactive"

\* C11: stopGlobalAudio with no current source and stopRecording with no active
\* recorder, with or without a target text, change nothing: no state changes,
\* no ended event and no stop event is queued, so no callback fires, however
\* often they are called.
C11_IdleStopIsNoOp ==
    /\ currentSource = 0 => stopGlobalAudio(World) = World
    /\ CaptureIdle => /\ stopRecording(World, NoTarget) = World
                      /\ stopRecording(World, Target) = World

\* the cleanup has called both on an idle controller and an idle session:
\* a source or recorder it had stopped would still await its event
C11_Witness ==
    /\ last = "Unmount"
    /\ sources # <<>> /\ \A k \in 1..Len(sources) : sources[k].st = "ended"
    /\ recorders # <<>>
    /\ \A k \in 1..Len(recorders) :
           recorders[k].state = "inactive" /\ ~recorders[k].stopEvent

\* recorder k has been created and is recording / has stopped
Recording(k) == Len(recorders) >= k /\ recorders[k].state = "recording"
Stopped(k) == Len(recorders) >= k /\ recorders[k].state = "inactive"

\* C12: a session in which speech was heard is stopped by the sampling loop,
\* only once more than 1200 ms have passed since the last sample above the
\* threshold, and with its target text; from then on, unless another sample is
\* above the threshold, the stop happens and handleAnalyzeAudio is called
\* with the clip of the session.
C12_AutoStopAfterSpeech ==
    /\ [][\A k \in 1..Len(recorders) :
              (recorders[k].state = "recording" /\ recorders'[k].state = "inactive"
                  /\ isSpeakingRef')
              => /\ last' = "VadQuiet"
                 /\ sinceLastSpeaking' > SilenceStopMs
                 /\ recorders[k].target.targeted
                 /\ recorders'[k].onstop = recorders[k].target
                 /\ recorders'[k].stopEvent]_vars
    /\ \A k \in 1..MaxRecorders :
           []((Recording(k) /\ isSpeakingRef)
                 => <>(last = "VadLoud" \/ (Stopped(k) /\ recorders[k].finished = 1)))

\* C13: a session in which no sample was above the threshold is stopped by the
\* sampling loop, only once more than 8000 ms have passed since it began, and
\* without a target text: the tracks are stopped, the clip is dropped and
\* handleAnalyzeAudio is never called for it; unless a sample is above the
\* threshold, that stop happens.
C13_SilenceTimeoutDiscards ==
    /\ [][\A k \in 1..Len(recorders) :
              /\ (recorders[k].state = "recording" /\ recorders'[k].state = "inactive"
                      /\ ~isSpeakingRef')
                  => /\ last' = "VadQuiet"
                     /\ sinceLastSpeaking' > NoSpeechStopMs
                     /\ recorders'[k].onstop = NoTarget
                     /\ ~recorders'[k].tracksLive
              /\ (recorders[k].state = "inactive" /\ ~recorders[k].onstop.targeted)
                  => /\ recorders'[k].finished = recorders[k].finished
                     /\ ~recorders'[k].onstop.targeted]_vars
    /\ \A k \in 1..MaxRecorders :
           []((Recording(k) /\ ~isSpeakingRef)
                 => <>(isSpeakingRef \/ (Stopped(k) /\ recorders[k].finished = 0)))

\* C14: at most one capture session is active: when a new recorder starts,
\* every earlier recorder has been stopped, its tracks are stopped and its
\* sampling loop has no frame scheduled.
C14_OneCaptureSession ==
    \A j, k \in 1..Len(recorders) :
        j < k => /\ recorders[j].state = "inactive"
                 /\ ~recorders[j].frame

\* the capture session stopped from outside the sampling loop (record button,
\* reset effect, cleanup)
NextExternalStop ==
    \/ ToggleRecording
    \/ AcquireDone
    \/ RecorderStopEvent
    \/ GradeDone
    \/ JumpTo
    \/ Unmount

SpecExternalStop == Init /\ [][NextExternalStop]_vars

\* C15: a stop from outside the sampling loop takes the session out of
\* recording. The record button (with target text) always finds a recording
\* session and leaves the recorder inactive with the onstop of that target
\* and its stop event queued; that onstop stays in place until the event
\* runs it, and handleAnalyzeAudio is called for a recorder at most once and
\* only by such an onstop. The stop of a reset or of the cleanup (no target
\* text) leaves no onstop and the tracks stopped, and handleAnalyzeAudio is
\* never called for that recorder.
C15_ExternalStop ==
    [][/\ (last' = "ToggleRecording" /\ isRecording)
          => /\ mediaRecorderRef # 0
             /\ recorders[mediaRecorderRef].state = "recording"
             /\ recorders'[mediaRecorderRef].state = "inactive"
       /\ \A k \in 1..Len(recorders) :
          /\ (Recording(k) /\ recorders'[k].state = "inactive"
                  /\ last' = "ToggleRecording")
              => /\ recorders'[k].onstop = Target
                 /\ recorders'[k].stopEvent
                 /\ recorders'[k].finished = 0
                 /\ ~isRecording'
          /\ (Recording(k) /\ recorders'[k].state = "inactive"
                  /\ last' \in {"JumpTo", "Unmount"})
              => /\ recorders'[k].onstop = NoTarget
                 /\ ~recorders'[k].tracksLive
                 /\ ~isRecording'
          /\ recorders'[k].finished # recorders[k].finished
              => /\ recorders[k].finished = 0 /\ recorders'[k].finished = 1
                 /\ recorders[k].onstop.targeted
                 /\ last' = "RecorderStopEvent"
                 /\ Len(gradings') = Len(gradings) + 1
          /\ (Stopped(k) /\ recorders[k].onstop.targeted)
              => /\ recorders[k].stopEvent
                 /\ \/ recorders'[k].onstop = recorders[k].onstop
                    \/ recorders'[k].finished = 1
          /\ (Stopped(k) /\ ~recorders[k].onstop.targeted)
              => /\ ~recorders'[k].onstop.targeted
                 /\ recorders'[k].finished = recorders[k].finished]_vars

\* the record button has just stopped a recording session
C15_Witness ==
    /\ last = "ToggleRecording" /\ ~isRecording /\ mediaRecorderRef # 0
    /\ recorders[mediaRecorderRef].state = "inactive"
    /\ recorders[mediaRecorderRef].stopEvent
    /\ recorders[mediaRecorderRef].onstop.targeted

\* C16: once stopRecording has stopped a session and the recorder's stop
\* event (if any) has been delivered, no media track of that session is live.
C16_TracksReleased ==
    \A k \in 1..Len(recorders) :
        (recorders[k].state = "inactive" /\ ~recorders[k].stopEvent)
            => ~recorders[k].tracksLive

\* C17: when getUserMedia rejects, the failure is reported (console.error and
\* alert), nothing of the capture state changes (an idle session stays idle:
\* isRecording false, no recorder created, no frame scheduled) and the request
\* is gone: no new acquisition is started.
C17_AcquisitionFailure ==
    [][(last' = "AcquireDone" /\ Len(recorders') = Len(recorders))
          => /\ reported' = <<"console.error", "alert">>
             /\ UNCHANGED <<isRecording, recorders, mediaRecorderRef, analyserRef,
                            animationFrameRef, isSpeakingRef, sinceLastSpeaking,
                            gradings, isAnalyzingAudio>>
             /\ Len(acquisitions') = Len(acquisitions) - 1
             /\ CaptureIdle => CaptureIdle']_vars

\* the first request for the microphone has been refused
C17_Witness ==
    /\ last = "AcquireDone" /\ reported = <<"console.error", "alert">>
    /\ ~isRecording /\ recorders = <<>> /\ acquisitions = <<>>

\* the record button of the corrected sentence (line 1153), for at most
\* MaxSessions capture sessions
RecordSentence ==
    /\ step = "make_sentence"
    /\ isRecording \/ Len(recorders) + Len(acquisitions) < MaxSessions
    /\ ToggleRecording

\* The four collaborators (generateSpeech, checkSentence, evaluatePronunciation,
\* askGrammarQuestion) answering or failing while the learner works on a word.
NextCollaborators ==
    \/ GoNext /\ InFlightBound
    \/ SpeechDone \/ DecodeDone
    \/ TypeSentence \/ SubmitSentence \/ CheckDone
    \/ TypeQuestion \/ AskSubmit \/ AskDone
    \/ RecordSentence \/ AcquireDone \/ RecorderStopEvent \/ GradeDone
    \/ Unmount

SpecCollaborators == Init /\ [][NextCollaborators]_vars

\* the step is the catch of a collaborator call
CollaboratorFails ==
    /\ last' \in {"SpeechDone", "DecodeDone", "CheckDone", "GradeDone", "AskDone"}
    /\ reported' # <<>>

\* C18: when a call of a collaborator fails, step, currentIndex, writeCount,
\* the award flags, the feedback and the pronunciation result stay as they
\* are and no points are awarded; on a mounted component the busy flag of the
\* call is false afterwards (isChecking, isAnalyzingAudio, isAsking; isPlaying
\* when the failed speak request is the latest), which is what enables the
\* submit controls again.
C18_CollaboratorFailure ==
    [][CollaboratorFails
          => /\ UNCHANGED <<step, currentIndex, writeCount,
                            hasAwardedSentencePoints, hasAwardedPronunciationPoints,
                            feedback, pronunciationResult, sentenceInput,
                            currentAudioIdRef>>
             /\ awarded' = <<>> /\ recorded' = <<>>
             /\ isMountedRef
                 => /\ last' = "CheckDone" => ~isChecking'
                    /\ last' = "GradeDone" => ~isAnalyzingAudio'
                    /\ last' = "AskDone" => ~isAsking'
                    /\ last' \in {"SpeechDone", "DecodeDone"}
                        => \A r \in speechRequests \ speechRequests' :
                               r.audioId = currentAudioIdRef => ~isPlaying']_vars

\* the sentence check has failed and the same sentence can be submitted again
C18_Witness ==
    /\ last = "CheckDone" /\ reported = <<"console.error">>
    /\ step = "make_sentence" /\ feedback = Null /\ ~isChecking
    /\ Trim(sentenceInput) # <<>> /\ isMountedRef

\* C19: the stored mistake list never holds two records with the same word,
\* type and date.
C19_NoDuplicateKey ==
    \A i, j \in 1..Len(mistakes) :
        (/\ mistakes[i].word = mistakes[j].word
         /\ mistakes[i].type = mistakes[j].type
         /\ mistakes[i].date = mistakes[j].date) => i = j

\* C20: goBack moves write_word to learn, copy_sentence to write_word and
\* make_sentence to copy_sentence on the same word; from learn on the first
\* word it changes nothing; from learn on a later word it moves to
\* make_sentence of the previous word.
C20_GoBack ==
    [][last' = "GoBack"
          => /\ step = "write_word"
                 => step' = "learn" /\ currentIndex' = currentIndex
             /\ step = "copy_sentence"
                 => step' = "write_word" /\ currentIndex' = currentIndex
             /\ step = "make_sentence"
                 => step' = "copy_sentence" /\ currentIndex' = currentIndex
             /\ (step = "learn" /\ currentIndex = 0)
                 => UNCHANGED <<uiVars, refVars, audioVars, flightVars>>
             /\ (step = "learn" /\ currentIndex > 0)
                 => step' = "make_sentence" /\ currentIndex' = currentIndex - 1]_vars

\* goBack has just left the first step of a later word
C20_Witness ==
    /\ last = "GoBack" /\ step = "make_sentence"
    /\ currentIndex = NumWords - 2

\* C21: a goBack that changes the step leaves the chat log, the word and
\* sentence inputs, the sentence feedback and the pronunciation result empty.
C21_BackResetsTransient ==
    [][(last' = "GoBack" /\ step' # step)
          => /\ chatHistory' = <<>>
             /\ currentInput' = <<>> /\ sentenceInput' = <<>>
             /\ feedback' = Null
             /\ pronunciationResult' = NoResult]_vars

\* C22: after a jump to a word, the current one included, the step is learn,
\* writeCount is 0, the inputs are empty, feedback and chat log are cleared,
\* both award flags are unset and no recorder is recording.
C22_JumpResetsAll ==
    [][last' = "JumpTo"
          => /\ step' = "learn" /\ writeCount' = 0
             /\ currentInput' = <<>> /\ sentenceInput' = <<>>
             /\ feedback' = Null /\ chatHistory' = <<>> /\ questionInput' = <<>>
             /\ ~hasAwardedSentencePoints' /\ ~hasAwardedPronunciationPoints'
             /\ ~isRecording'
             /\ \A k \in 1..Len(recorders') : recorders'[k].state # "recording"]_vars

\* C23: the machine advances from make_sentence to the next word, or to the
\* completion of the session, only when the sentence has feedback.
C23_AdvanceNeedsFeedback ==
    [][(step = "make_sentence" /\ last' \in {"GoNext", "NextWord"})
          => feedback # Null]_vars

\* C24: a copy whose lower-cased, punctuation-stripped, trimmed form equals
\* that of the example sentence awards 5 points, once, empties the input and
\* moves the step to make_sentence.
C24_CopyMatch ==
    [][(last' = "SubmitCopy"
           /\ normalize(currentInput) = normalize(SentenceOf(currentIndex)))
          => /\ awarded' = <<5>>
             /\ currentInput' = <<>>
             /\ step' = "make_sentence"
             /\ currentIndex' = currentIndex]_vars

\* a matching copy has been accepted
C24_Witness ==
    /\ last = "SubmitCopy" /\ step = "make_sentence"
    /\ awarded = <<5>> /\ currentInput = <<>>

\* C25: a copy that does not match changes the hint and nothing else: step,
\* currentIndex, writeCount and the input stay, no points are awarded, no
\* mistake is recorded and no speak request is issued.
C25_CopyMismatchFrame ==
    [][(last' = "SubmitCopy"
           /\ normalize(currentInput) # normalize(SentenceOf(currentIndex)))
          => /\ UNCHANGED <<step, currentIndex, writeCount, currentInput,
                            sentenceInput, feedback, wordError, isPlaying,
                            hasAwardedSentencePoints, hasAwardedPronunciationPoints,
                            speechRequests, currentAudioIdRef>>
             /\ awarded' = <<>> /\ recorded' = <<>>
             /\ copyError' # NoHint]_vars

\* a copy has been refused with a hint
C25_Witness ==
    /\ last = "SubmitCopy" /\ step = "copy_sentence"
    /\ copyError # NoHint /\ recorded = <<>> /\ awarded = <<>>

\* C26: when checkSentence judges a submitted sentence incorrect (component
\* mounted), exactly one mistake of type grammar is emitted, carrying the
\* submitted sentence, the corrected sentence and the explanation; no points
\* are awarded and the sentence-points flag and the step are unchanged.
C26_IncorrectSentence ==
    [][(last' = "CheckDone" /\ isMountedRef /\ reported' = <<>>
           /\ feedback' = "incorrect")
          => /\ Len(recorded') = 1
             /\ recorded'[1].type = "grammar"
             /\ \E i \in 1..Len(sentenceChecks) :
                    /\ sentenceChecks' = RemoveAt(sentenceChecks, i)
                    /\ recorded'[1].userInput = sentenceChecks[i].input
                    /\ recorded'[1].word = sentenceChecks[i].index
             /\ recorded'[1].correction = <<"f", "i", "x">>
             /\ recorded'[1].explanation = <<"w", "h", "y">>
             /\ awarded' = <<>>
             /\ hasAwardedSentencePoints' = hasAwardedSentencePoints
             /\ step' = step /\ currentIndex' = currentIndex]_vars

\* a sentence has been judged incorrect in the step that submitted it
C26_Witness ==
    /\ last = "CheckDone" /\ step = "make_sentence" /\ feedback = "incorrect"
    /\ Len(recorded) = 1 /\ recorded[1].userInput = <<"c", "a", "t">>
    /\ awarded = <<>> /\ ~isChecking

\* handleWordInputSubmit's comparison (line 338) on any typed text and any
\* word of the list
WordChars == {"a", "A", "t", " "}

InitWordsMatch ==
    /\ InitComponent
    /\ fnInput \in Strings(WordChars, MaxLen)
    /\ fnTarget \in Strings(WordChars, MaxLen)
    /\ fnResult = FALSE

ApplyWordsMatch == Apply("wordsMatch", WordMatches(fnInput, fnTarget))

SpecWordsMatch == InitWordsMatch /\ [][ApplyWordsMatch]_vars

\* C27: the typed text matches the word exactly when lower-casing and
\* trimming both of them gives equal strings.
C27_WordsMatch ==
    last = "wordsMatch"
        => (fnResult <=> Trim(ToLowerCase(fnInput)) = Trim(ToLowerCase(fnTarget)))

\* handleCopySentenceSubmit's else branch (lines 380-399) on any typed text
\* and any example sentence that do not match
SentenceChars == {"a", "T", " ", "."}

InitDiagnose ==
    /\ InitComponent
    /\ fnInput \in Strings(SentenceChars, MaxLen)
    /\ fnTarget \in Strings(SentenceChars, MaxLen)
    /\ fnResult = NoHint

ApplyDiagnose ==
    /\ ~SentenceMatches(fnInput, fnTarget)
    /\ Apply("diagnoseMismatch", DiagnoseMismatch(fnInput, fnTarget))

SpecDiagnose == InitDiagnose /\ [][ApplyDiagnose]_vars

\* C28: the hint reports only the first divergence met walking the target's
\* tokens: a missing word (with the expected token) when the input has no
\* token there, a typo (with the actual and the expected token) when the two
\* tokens differ; extra words when every target position matches and the
\* input has more tokens; the generic message otherwise.
C28_FirstDivergence ==
    last = "diagnoseMismatch" =>
        LET target == SplitWS(clean(fnTarget))
            typed == SplitWS(clean(fnInput))
            Has(p) == p <= Len(typed) /\ typed[p] # <<>>
            Agree(p) == Has(p) /\ typed[p] = target[p]
            IsFirst(p) == ~Agree(p) /\ \A q \in 1..(p - 1) : Agree(q)
        IN  /\ \A p \in 1..Len(target) :
                  /\ (IsFirst(p) /\ ~Has(p))
                        => /\ fnResult.kind = "Missing"
                           /\ fnResult.expected = target[p]
                  /\ (IsFirst(p) /\ Has(p))
                        => /\ fnResult.kind = "Typo"
                           /\ fnResult.got = typed[p]
                           /\ fnResult.expected = target[p]
            /\ ((\A p \in 1..Len(target) : Agree(p)) /\ Len(typed) > Len(target))
                  => fnResult.kind = "Extra"
            /\ ((\A p \in 1..Len(target) : Agree(p)) /\ Len(typed) <= Len(target))
                  => fnResult.kind = "Generic"

\* reached: the first token is mistyped and the second missing, and the hint
\* is the typo
C28_Witness ==
    /\ last = "diagnoseMismatch"
    /\ fnTarget = <<"a", " ", "a">> /\ fnInput = <<"T">>
    /\ fnResult = [kind |-> "Typo", got |-> <<"t">>, expected |-> <<"a">>]

\* ------------------------------------------------------------ formatText
\* text.split(/(\*\*.*?\*\*)/g) of line 18: the leftmost "**", closed by the
\* nearest later "**", is a part of its own; the text before it (possibly
\* empty) is a part, and the rest is split the same way
RECURSIVE splitBold(_)
splitBold(text) ==
    LET IsStars(i) == text[i] = "*" /\ text[i + 1] = "*"
        Closers(i) == {e \in (i + 2)..(Len(text) - 1) : IsStars(e)}
        openers == {i \in 1..(Len(text) - 3) : IsStars(i) /\ Closers(i) # {}}
    IN  IF openers = {} THEN <<text>>
        ELSE LET i == CHOOSE x \in openers : \A y \in openers : x <= y
                 e == CHOOSE x \in Closers(i) : \A y \in Closers(i) : x <= y
             IN  <<SubSeq(text, 1, i - 1), SubSeq(text, i, e + 1)>>
                     \o splitBold(SubSeq(text, e + 2, Len(text)))

\* the map of lines 18-23: a part that starts and ends with "**" becomes a
\* <strong> of part.slice(2, -2), any other part a <span> of itself
segmentOf(part) ==
    LET n == Len(part)
        startsWith == n >= 2 /\ part[1] = "*" /\ part[2] = "*"
        endsWith == n >= 2 /\ part[n - 1] = "*" /\ part[n] = "*"
    IN  IF startsWith /\ endsWith
        THEN [bold |-> TRUE, text |-> SubSeq(part, 3, n - 2)]
        ELSE [bold |-> FALSE, text |-> part]

\* formatText, lines 16-24; null (line 17) is the empty list of segments
formatText(text) ==
    IF text = <<>> THEN <<>>
    ELSE LET parts == splitBold(text)
         IN  [k \in 1..Len(parts) |-> segmentOf(parts[k])]

TextChars == {"*", "a", "b"}

InitFormatText ==
    /\ InitComponent
    /\ fnInput \in Strings(TextChars, MaxTextLen)
    /\ fnTarget = <<>>
    /\ fnResult = <<>>

ApplyFormatText == Apply("formatText", formatText(fnInput))

SpecFormatText == InitFormatText /\ [][ApplyFormatText]_vars

\* C29: the segments preserve all text: concatenating them in order, with
\* every bold segment wrapped in "**" again, gives the input back, also when
\* a "**" has no closing partner.
C29_TextPreserved ==
    last = "formatText" =>
        LET Wrapped(seg) ==
                IF seg.bold THEN <<"*", "*">> \o seg.text \o <<"*", "*">>
                ELSE seg.text
            RECURSIVE Joined(_)
            Joined(segs) ==
                IF segs = <<>> THEN <<>>
                ELSE Wrapped(Head(segs)) \o Joined(Tail(segs))
        IN  Joined(fnResult) = fnInput

\* ------------------------------------------------------- decodeAudioData
\* bytes are 0..255; the ones that make the smallest, the largest and the
\* sign-changing 16-bit values
ByteValues == {0, 1, 127, 128, 255}

\* a 16-bit pattern read without its sign
ToInt16_Unsigned(v) == v

\* an element of Int16Array: the 16-bit pattern v as a two's-complement value
ToInt16(v) == ((v + 32768) % 65536) - 32768

\* new Int16Array(data.buffer), line 20: pairs of bytes, low byte first
Int16Array(data) ==
    [i \in 1..(Len(data) \div 2) |-> ToInt16(data[2 * i - 1] + 256 * data[2 * i])]

\* decodeAudioData, lines 14-31. createBuffer takes the whole number of frames
\* and throws NotSupportedError when that is 0; a sample is the quotient
\* num / den
decodeAudioData(data, numChannels) ==
    LET dataInt16 == Int16Array(data)
        frameCount == Len(dataInt16) \div numChannels
    IN  IF frameCount = 0
        THEN [thrown |-> TRUE, length |-> 0, channels |-> <<>>]
        ELSE [thrown |-> FALSE, length |-> frameCount,
              channels |->
                  [channel \in 1..numChannels |->
                      [i \in 1..frameCount |->
                          [num |-> dataInt16[(i - 1) * numChannels + channel],
                           den |-> PcmScale]]]]

InitDecode ==
    /\ InitComponent
    /\ fnInput \in UNION {[1..(2 * n) -> ByteValues] : n \in 0..MaxSamples}
    /\ fnTarget \in 1..MaxChannels
    /\ fnResult = [thrown |-> FALSE, length |-> 0, channels |-> <<>>]

ApplyDecode == Apply("decodeAudioData", decodeAudioData(fnInput, fnTarget))

SpecDecode == InitDecode /\ [][ApplyDecode]_vars

\* C30: for every even-length byte sequence holding at least one whole frame,
\* the mono output has byteLength / 2 samples; every sample s is the signed
\* 16-bit value divided by 32768, so -1 <= s <= 1; and with c channels,
\* sample i of channel k is input sample i * c + k.
C30_Pcm16 ==
    (last = "decodeAudioData" /\ Len(fnInput) >= 2 * fnTarget) =>
        LET c == fnTarget
            Signed(lo, hi) ==
                IF hi >= 128 THEN lo + 256 * hi - 65536 ELSE lo + 256 * hi
            InputSample(n) == Signed(fnInput[2 * n - 1], fnInput[2 * n])
        IN  /\ ~fnResult.thrown
            /\ c = 1 => fnResult.length = Len(fnInput) \div 2
            /\ Len(fnResult.channels) = c
            /\ \A k \in 1..c :
                  /\ Len(fnResult.channels[k]) = fnResult.length
                  /\ \A i \in 1..fnResult.length :
                        LET s == fnResult.channels[k][i]
                        IN  /\ s.den = 32768
                            /\ s.num = InputSample((i - 1) * c + k)
                            /\ -s.den <= s.num /\ s.num <= s.den

\* reached: two channels, one frame: the lowest sample left, the highest right
C30_Witness ==
    /\ last = "decodeAudioData"
    /\ fnInput = <<0, 128, 255, 127>> /\ fnTarget = 2
    /\ fnResult.channels[1] = <<[num |-> -32768, den |-> 32768]>>
    /\ fnResult.channels[2] = <<[num |-> 32767, den |-> 32768]>>

\* C30 as written: for every even-length byte sequence, the empty one
\* included, the mono output has byteLength / 2 samples, each in [-1, 1].
C30_EveryEvenLength ==
    (last = "decodeAudioData" /\ fnTarget = 1) =>
        /\ ~fnResult.thrown
        /\ fnResult.length = Len(fnInput) \div 2
        /\ \A i \in 1..fnResult.length :
              LET s == fnResult.channels[1][i]
              IN  -s.den <= s.num /\ s.num <= s.den

C32_OnEndedExactlyOnce ==
    /\ [][\A k \in 1..Len(sources) :
              /\ sources'[k].fired >= sources[k].fired
              /\ sources'[k].fired > sources[k].fired
                    => /\ sources[k].fired = 0 /\ sources'[k].fired = 1
                       /\ sources[k].st \in {"stopped", "finished"}]_vars
    /\ \A k \in 1..MaxSources :
           (Len(sources) >= k)
               ~> (Len(sources) >= k /\ sources[k].st = "ended" /\ sources[k].fired = 1)

\* reached: three clips were started one after the other, the earlier ones
\* stopped or replaced, and each has had its onEnded fired once
C32_Witness ==
    /\ Len(sources) = 3
    /\ \A k \in 1..3 : sources[k].st = "ended" /\ sources[k].fired = 1

\* C33: advancing from a word that is not the last one adds exactly 1 to
\* currentIndex, sets the step to learn and resets writeCount, the inputs,
\* the feedback, the chat log and both award flags; advancing from the last
\* word calls onComplete once and leaves currentIndex and step as they are.
C33_Advance ==
    [][/\ ~isMountedRef => reported' # <<"onComplete">>
       /\ (last' = "NextWord" \/ (last' = "GoNext" /\ step = "make_sentence"))
          => IF currentIndex < localWordsLength - 1
             THEN /\ currentIndex' = currentIndex + 1
                  /\ step' = "learn" /\ writeCount' = 0
                  /\ currentInput' = <<>> /\ sentenceInput' = <<>>
                  /\ feedback' = Null /\ chatHistory' = <<>>
                  /\ ~hasAwardedSentencePoints' /\ ~hasAwardedPronunciationPoints'
                  /\ reported' = <<>>
             ELSE /\ reported' = <<"onComplete">>
                  /\ UNCHANGED <<currentIndex, step>>]_vars

\* reached: the Next Word button on the last word, after its sentence was
\* judged: onComplete is called
C33_Witness ==
    /\ last = "NextWord" /\ reported = <<"onComplete">>
    /\ currentIndex = localWordsLength - 1 /\ step = "make_sentence"
    /\ feedback # Null

\* C34: within one visit of a word (no change of word, no jump) the points
\* awarded by word submissions total at most 5 (1 + 1 + 3), whatever the
\* learner submits and however they navigate back and forth; the +3 award
\* is made at most once.
C34_DrillPointsPerVisit ==
    drillAwards.points <= 5 /\ drillAwards.threes <= 1

\* The drill while the parent may replace the word list.
NextWords == NextDrill \/ ReplaceWords

SpecWords == Init /\ [][NextWords]_vars

\* C35: currentIndex always designates a word of the active list:
\* 0 <= currentIndex < localWords.length, after any next-word, back and jump
\* operations and after the words prop was replaced by another list.
C35_IndexInRange ==
    0 <= currentIndex /\ currentIndex < localWordsLength

\* ------------------------------------------------------------ ArticleView
\* ArticleView keeps the same cells as the drill for playback (isPlaying,
\* isMountedRef, currentAudioIdRef) and shares audioUtils.ts with it.
\* handlePlayAudio of ArticleView, lines 41-51, up to the await: the button
\* is a toggle.  stopped is history: the learner toggled playback off while
\* the request was the latest one.
articlePlayAudio(w) ==
    IF w.isPlaying
    THEN [stopGlobalAudio(w) EXCEPT
             !.isPlaying = FALSE,
             !.speechRequests =
                 {IF r.audioId = w.currentAudioIdRef
                  THEN [r EXCEPT !.stopped = TRUE] ELSE r : r \in @}]
    ELSE LET audioId == w.currentAudioIdRef + 1
             w1 == [w EXCEPT !.currentAudioIdRef = audioId, !.isPlaying = TRUE]
         IN  [stopGlobalAudio(w1) EXCEPT
                 !.speechRequests =
                     @ \cup {[audioId |-> audioId, phase |-> "fetch",
                              text |-> "article", stopped |-> FALSE]}]

ArticlePlayButton ==
    /\ isMountedRef
    /\ Commit(articlePlayAudio(World), "ArticlePlayButton")

\* the rest of handlePlayAudio of ArticleView (lines 52-77) is, statement for
\* statement, the rest of the drill's handlePlayAudio
ArticleSpeech == Speech

InitArticle ==
    /\ InitIdle /\ InitStage("ARTICLE_STUDY", 1)
    /\ isPlaying = FALSE /\ currentAudioIdRef = 0 /\ speechRequests = {}
    /\ fnInput = <<>> /\ fnTarget = <<>> /\ fnResult = <<>>

NextArticle == ArticlePlayButton \/ ArticleSpeech \/ Unmount

SpecArticle == InitArticle /\ [][NextArticle]_vars

\* C36: in the article reader, once the learner has toggled playback off, no
\* audio becomes audible until the learner asks for playback again, also when
\* the speech request that was in flight at the toggle completes afterwards.
C36_ToggleOffStaysSilent ==
    [][\A k \in (Len(sources) + 1)..Len(sources') :
           \A r \in speechRequests :
               r.audioId = sources'[k].onEnded => ~r.stopped]_vars

\* C37: after the component was unmounted, or after the active word changed,
\* no capture session of the earlier context is live or becomes live, also
\* when a getUserMedia call made before resolves afterwards.
C37_NoSessionOutlivesContext ==
    [][/\ \A k \in 1..Len(recorders') :
              recorders'[k].state = "recording"
                  => /\ isMountedRef'
                     /\ k > Len(recorders)
                           => recorders'[k].target.index = currentIndex'
       /\ currentIndex' # currentIndex
              => \A k \in 1..Len(recorders') : recorders'[k].state # "recording"]_vars

\* nothing of the playback is in flight, audible or queued
PlaybackQuiet ==
    /\ speechRequests = {}
    /\ \A k \in 1..Len(sources) : sources[k].st = "ended"

\* C38: while the drill is mounted, isPlaying is false once the latest speak
\* request has failed, returned no audio, or had its clip ended or stopped:
\* with nothing in flight, nothing audible and no ended event queued,
\* isPlaying is not true.
C38_IsPlayingSettles ==
    (isMountedRef /\ PlaybackQuiet) => ~isPlaying

\* reached: the clip of the third request has ended, nothing is left in
\* flight and isPlaying is false
C38_Witness ==
    /\ last = "EndedEvent" /\ isMountedRef /\ PlaybackQuiet
    /\ currentAudioIdRef = 3 /\ ~isPlaying
    /\ sources[Len(sources)].onEnded = 3

\* C39: each capture session leads to at most one call of handleAnalyzeAudio
\* (one grading request), whether it is stopped by the sampling loop, by the
\* record button, by a change of word or by the unmount, and to none once a
\* stop without target text has ended it.
C39_OneAnalysisPerSession ==
    [][\A k \in 1..Len(recorders) :
          /\ recorders'[k].finished >= recorders[k].finished
          /\ recorders'[k].finished <= 1
          /\ Recording(k) => recorders[k].finished = 0
          /\ (Recording(k) /\ recorders'[k].state = "inactive"
                  /\ ~recorders'[k].onstop.targeted)
              => recorders'[k].finished = 0
          /\ (Stopped(k) /\ ~recorders[k].onstop.targeted)
              => recorders'[k].finished = recorders[k].finished
          /\ recorders'[k].finished > recorders[k].finished
              => Len(gradings') = Len(gradings) + 1]_vars

\* reached: the first session was stopped with its target text and analysed
\* once, the second was ended by the unmount and is not analysed
C39_Witness ==
    /\ Len(recorders) = 2 /\ ~isMountedRef /\ last = "RecorderStopEvent"
    /\ recorders[1].finished = 1
    /\ recorders[2].state = "inactive" /\ ~recorders[2].stopEvent
    /\ recorders[2].finished = 0

\* -------------------------------------------------------------------- App
\* The session controller.  The components a stage shows are left aside: a
\* step of App changes the cells of App only.
AppStep(name) ==
    /\ last' = name
    /\ UNCHANGED <<uiVars, refVars, audioVars, flightVars, storeVars, histVars,
                   fnVars, awarded, recorded, reported>>

\* the effect of lines 46-69 after a render that shows shown with stored as
\* the article: in ARTICLE_GENERATION it goes on to the study when an article
\* is stored and asks for one otherwise
ArticleEffect(shown, stored) ==
    IF shown # "ARTICLE_GENERATION"
    THEN stage' = shown /\ UNCHANGED articleRequests
    ELSE IF stored # 0
    THEN stage' = "ARTICLE_STUDY" /\ UNCHANGED articleRequests
    ELSE /\ stage' = shown
         /\ \E id \in 1..MaxArticles :
               /\ id \notin articleRequests /\ id # article
               /\ \A other \in articleRequests : other < id
               /\ articleRequests' = articleRequests \cup {id}

\* handleThemeSelect up to its await, lines 87-98; the selector is disabled
\* while isLoading
handleThemeSelect ==
    /\ stage = "THEME_SELECTION" /\ ~isLoading
    /\ vocabularyRequests < MaxVocabulary
    /\ isLoading' = TRUE /\ vocabularyRequests' = vocabularyRequests + 1
    /\ UNCHANGED <<stage, article, articleRequests>>
    /\ AppStep("handleThemeSelect")

\* after `await generateVocabulary(...)`, lines 99-110 and 268-287
VocabularyDone ==
    \E ok \in BOOLEAN :
        /\ vocabularyRequests > 0
        /\ vocabularyRequests' = vocabularyRequests - 1
        /\ isLoading' = FALSE
        /\ article' = article
        /\ ArticleEffect(IF ok THEN "VOCAB_PREVIEW" ELSE stage, article)
        /\ AppStep("VocabularyDone")

handleStartLearning ==
    /\ stage = "VOCAB_PREVIEW"
    /\ stage' = "WORD_LEARNING"
    /\ UNCHANGED <<article, isLoading, articleRequests, vocabularyRequests>>
    /\ AppStep("handleStartLearning")

handleWordsComplete ==
    /\ stage = "WORD_LEARNING"
    /\ ArticleEffect("ARTICLE_GENERATION", article)
    /\ UNCHANGED <<article, isLoading, vocabularyRequests>>
    /\ AppStep("handleWordsComplete")

\* fetchArticle after `await generateArticle(...)`, lines 58-65
ArticleDone ==
    \E id \in articleRequests, ok \in BOOLEAN :
        /\ articleRequests' = articleRequests \ {id}
        /\ article' = IF ok THEN id ELSE article
        /\ stage' = IF ok THEN "ARTICLE_STUDY" ELSE "FREE_WRITING"
        /\ UNCHANGED <<isLoading, vocabularyRequests>>
        /\ AppStep("ArticleDone")

handleArticleComplete ==
    /\ stage = "ARTICLE_STUDY" /\ article # 0
    /\ stage' = "FREE_WRITING"
    /\ UNCHANGED <<article, isLoading, articleRequests, vocabularyRequests>>
    /\ AppStep("handleArticleComplete")

\* the callback of handleContinueTheme, lines 246-288, up to its await
handleContinueTheme ==
    /\ stage = "FREE_WRITING"
    /\ vocabularyRequests < MaxVocabulary
    /\ article' = 0 /\ isLoading' = TRUE
    /\ vocabularyRequests' = vocabularyRequests + 1
    /\ UNCHANGED <<stage, articleRequests>>
    /\ AppStep("handleContinueTheme")

handlePracticeReview ==
    /\ stage = "FREE_WRITING"
    /\ stage' = "VOCAB_PREVIEW"
    /\ UNCHANGED <<article, isLoading, articleRequests, vocabularyRequests>>
    /\ AppStep("handlePracticeReview")

\* the header is shown in every stage
handleReset ==
    /\ stage' = "THEME_SELECTION" /\ article' = 0 /\ isLoading' = FALSE
    /\ UNCHANGED <<articleRequests, vocabularyRequests>>
    /\ AppStep("handleReset")

InitApp ==
    /\ InitIdle /\ InitStage("THEME_SELECTION", 0)
    /\ isPlaying = FALSE /\ currentAudioIdRef = 0 /\ speechRequests = {}
    /\ fnInput = <<>> /\ fnTarget = <<>> /\ fnResult = <<>>

NextApp ==
    \/ handleThemeSelect \/ VocabularyDone \/ handleStartLearning
    \/ handleWordsComplete \/ ArticleDone \/ handleArticleComplete
    \/ handleContinueTheme \/ handlePracticeReview \/ handleReset

SpecApp == InitApp /\ [][NextApp]_vars

\* C40: the result or the failure of an article generation that arrives
\* after the learner has left the ARTICLE_GENERATION stage (by a reset to the
\* theme selection, say) changes neither the stage nor the stored article.
C40_LateArticleIgnored ==
    [][(last' = "ArticleDone" /\ stage # "ARTICLE_GENERATION")
          => UNCHANGED <<stage, article>>]_vars

====
